---- MODULE Spec2Model ----
(***************************************************************************)
(* The Policy Constraints extension codec of crypto/x509/v3_pcons.cc:      *)
(* i2v_POLICY_CONSTRAINTS (structure -> display pairs) and                 *)
(* v2i_POLICY_CONSTRAINTS (configuration pairs -> structure), run through  *)
(* the v3_policy_constraints method table.                                 *)
(*                                                                         *)
(* Text is a sequence of one-character strings, so that rendering an       *)
(* integer and parsing it back are real conversions.  An optional          *)
(* ASN1_INTEGER field is <<>> (the NULL pointer) or <<n>>.                 *)
(***************************************************************************)
EXTENDS Integers, Sequences, FiniteSets, TLC

\* ------------------------------------------------------------------ bounds
\* longest list of configuration pairs handed to v2i
MaxLen == 2
\* the small integers 0..MaxVal occur as field values and as value texts
MaxVal == 2
\* one multi-digit integer, so that decimal texts of two characters occur
BigVal == 12

VARIABLES
  pc,        \* position: "idle", a line of i2v or v2i, "i2v_done", "v2i_done"
  a,         \* i2v: the structure passed in (void *a)
  extlist,   \* i2v: the list being appended to
  extlist0,  \* i2v: the list as it was passed in
  retlist,   \* i2v: the list returned at line 61
  values,    \* v2i: the configuration pairs passed in
  i,         \* v2i: the loop index of line 71 (0-based)
  pcons,     \* v2i: the fields of the structure being built
  heap,      \* v2i: the structure's storage: "unallocated", "live", "freed"
  frees,     \* v2i: how often POLICY_CONSTRAINTS_free released the structure
  ret,       \* what the running/finished call returned: "pending", "NULL", "pcons", "extlist"
  errq,      \* the error queue: the errors put by OPENSSL_PUT_ERROR, with the pair X509V3_conf_err attached
  oom,       \* the allocation sites at which an allocation failed
  feed,      \* where v2i's pairs came from: "none", "conf", "display", "renamed"
  built      \* TRUE when the structure given to i2v was built by v2i

vars == <<pc, a, extlist, extlist0, retlist, values, i, pcons, heap, frees,
          ret, errq, oom, feed, built>>

\* ------------------------------------------------------------ data model
NULL == <<>>

\* ASN1_SEQUENCE(POLICY_CONSTRAINTS): two optional integers
POLICY_CONSTRAINTS(rep, ipm) ==
  [requireExplicitPolicy |-> rep, inhibitPolicyMapping |-> ipm]

\* POLICY_CONSTRAINTS_new: a zero-initialised instance, both fields absent
POLICY_CONSTRAINTS_new == POLICY_CONSTRAINTS(NULL, NULL)

Ints == (0..MaxVal) \cup {BigVal}
OptInts == {NULL} \cup {<<n>> : n \in Ints}
Structs == {POLICY_CONSTRAINTS(r, m) : r \in OptInts, m \in OptInts}

CONF_VALUE(n, v) == [name |-> n, value |-> v]
NoPair == CONF_VALUE("", <<>>)

Digits == <<"0", "1", "2", "3", "4", "5", "6", "7", "8", "9">>

IsDigit(c) == \E d \in 1..10 : Digits[d] = c

DigitVal(c) == (CHOOSE d \in 1..10 : Digits[d] = c) - 1

\* i2s_ASN1_INTEGER: the decimal text of a non-negative integer
RECURSIVE i2s_ASN1_INTEGER(_)
i2s_ASN1_INTEGER(n) ==
  IF n < 10 THEN <<Digits[n + 1]>>
  ELSE i2s_ASN1_INTEGER(n \div 10) \o <<Digits[(n % 10) + 1]>>

\* the text is a non-negative base-10 integer: digits only, at least one
IsDecimal(s) == Len(s) > 0 /\ \A k \in 1..Len(s) : IsDigit(s[k])

RECURSIVE DecimalValue(_)
DecimalValue(s) ==
  IF Len(s) = 0 THEN 0
  ELSE 10 * DecimalValue(SubSeq(s, 1, Len(s) - 1)) + DigitVal(s[Len(s)])

\* s2i_ASN1_INTEGER: <<n>> for a decimal text, NULL for anything else
s2i_ASN1_INTEGER(s) == IF IsDecimal(s) THEN <<DecimalValue(s)>> ELSE NULL

X509V3_R_INVALID_NAME == "X509V3_R_INVALID_NAME"
X509V3_R_ILLEGAL_EMPTY_EXTENSION == "X509V3_R_ILLEGAL_EMPTY_EXTENSION"
InvalidIntegerError == "InvalidIntegerError"

Error(code, val) == [code |-> code, pair |-> val]

\* X509V3_get_value_int(val, &field): parse val->value; on success the field
\* is overwritten, on failure it is left alone and 0 is returned.  mem says
\* whether the allocation of the new integer succeeds.
X509V3_get_value_int(val, field, mem) ==
  LET itmp == s2i_ASN1_INTEGER(val.value) IN
  IF itmp = NULL
    THEN [ok |-> FALSE, aint |-> field,
          err |-> <<Error(InvalidIntegerError, val)>>, oom |-> {}]
  ELSE IF ~mem
    THEN [ok |-> FALSE, aint |-> field, err |-> <<>>,
          oom |-> {"X509V3_get_value_int"}]
  ELSE [ok |-> TRUE, aint |-> itmp, err |-> <<>>, oom |-> {}]

\* X509V3_add_value_int(name, aint, &extlist): nothing to do for an absent
\* integer; otherwise append (name, decimal text), or fail when the
\* allocation of the entry fails, leaving the list as it was.
X509V3_add_value_int(name, aint, list, mem) ==
  IF aint = NULL THEN [ok |-> TRUE, list |-> list, oom |-> {}]
  ELSE IF ~mem
    THEN [ok |-> FALSE, list |-> list, oom |-> {"X509V3_add_value_int"}]
  ELSE [ok |-> TRUE, oom |-> {},
        list |-> Append(list, CONF_VALUE(name, i2s_ASN1_INTEGER(aint[1])))]

\* ---------------------------------------------------------------- inputs
ValueTexts ==
  {i2s_ASN1_INTEGER(n) : n \in Ints}
    \cup {<<"-", "1">>, <<"a", "b", "c">>, <<>>}

Names == {"requireExplicitPolicy", "inhibitPolicyMapping", "foo",
          "RequireExplicitPolicy"}

Pairs == {CONF_VALUE(n, v) : n \in Names, v \in ValueTexts}

RECURSIVE SeqsUpTo(_, _)
SeqsUpTo(S, n) ==
  IF n = 0 THEN {<<>>}
  ELSE LET shorter == SeqsUpTo(S, n - 1) IN
       shorter \cup {Append(s, x) : s \in {t \in shorter : Len(t) = n - 1}, x \in S}

Inputs == SeqsUpTo(Pairs, MaxLen)

\* lists already filled by sibling extensions rendered together
PreLists == {<<>>,
             <<CONF_VALUE("CA", <<"T">>)>>,
             <<CONF_VALUE("Inhibit Policy Mapping", <<"7">>),
               CONF_VALUE("CA", <<"T">>)>>}

Init ==
  /\ pc = "idle"
  /\ a = POLICY_CONSTRAINTS_new
  /\ extlist = <<>>
  /\ extlist0 = <<>>
  /\ retlist = <<>>
  /\ values = <<>>
  /\ i = 0
  /\ pcons = POLICY_CONSTRAINTS_new
  /\ heap = "unallocated"
  /\ frees = 0
  /\ ret = "pending"
  /\ errq = <<>>
  /\ oom = {}
  /\ feed = "none"
  /\ built = FALSE

v2iVars == <<values, i, pcons, heap, frees, errq, feed>>
i2vVars == <<a, extlist, extlist0, retlist, built>>

\* ------------------------------------------------- i2v_POLICY_CONSTRAINTS
\* the method table's i2v slot called on a decoded structure
Call_i2v ==
  /\ pc = "idle"
  /\ \E s \in Structs, L \in PreLists :
       /\ a' = s
       /\ extlist' = L
       /\ extlist0' = L
  /\ built' = FALSE
  /\ pc' = "i2v_57"
  /\ ret' = "pending"
  /\ UNCHANGED <<retlist, oom>>
  /\ UNCHANGED v2iVars

\* the i2v slot called on the structure v2i just returned
Call_i2v_built ==
  /\ pc = "v2i_done"
  /\ ret = "pcons"
  /\ feed = "conf"
  /\ a' = pcons
  /\ \E L \in PreLists :
       /\ extlist' = L
       /\ extlist0' = L
  /\ built' = TRUE
  /\ pc' = "i2v_57"
  /\ ret' = "pending"
  /\ UNCHANGED <<retlist, oom>>
  /\ UNCHANGED v2iVars

\* fault: line 57 copied from line 59, the wrong field under the wrong label
i2v_requireExplicitPolicy_copied ==
  /\ pc = "i2v_57"
  /\ \E mem \in BOOLEAN :
       LET r == X509V3_add_value_int("Inhibit Policy Mapping",
                                     a.inhibitPolicyMapping, extlist, mem) IN
       /\ extlist' = r.list
       /\ oom' = oom \cup r.oom
  /\ pc' = "i2v_59"
  /\ UNCHANGED <<a, extlist0, retlist, built, ret>>
  /\ UNCHANGED v2iVars

\* lines 57-58; the int result of X509V3_add_value_int is dropped
i2v_requireExplicitPolicy ==
  /\ pc = "i2v_57"
  /\ \E mem \in BOOLEAN :
       LET r == X509V3_add_value_int("Require Explicit Policy",
                                     a.requireExplicitPolicy, extlist, mem) IN
       /\ extlist' = r.list
       /\ oom' = oom \cup r.oom
  /\ pc' = "i2v_59"
  /\ UNCHANGED <<a, extlist0, retlist, built, ret>>
  /\ UNCHANGED v2iVars

\* fault: line 59 renders requireExplicitPolicy a second time
i2v_inhibitPolicyMapping_wrongField ==
  /\ pc = "i2v_59"
  /\ \E mem \in BOOLEAN :
       LET r == X509V3_add_value_int("Inhibit Policy Mapping",
                                     a.requireExplicitPolicy, extlist, mem) IN
       /\ extlist' = r.list
       /\ oom' = oom \cup r.oom
  /\ pc' = "i2v_61"
  /\ UNCHANGED <<a, extlist0, retlist, built, ret>>
  /\ UNCHANGED v2iVars

\* lines 59-60; the int result of X509V3_add_value_int is dropped
i2v_inhibitPolicyMapping ==
  /\ pc = "i2v_59"
  /\ \E mem \in BOOLEAN :
       LET r == X509V3_add_value_int("Inhibit Policy Mapping",
                                     a.inhibitPolicyMapping, extlist, mem) IN
       /\ extlist' = r.list
       /\ oom' = oom \cup r.oom
  /\ pc' = "i2v_61"
  /\ UNCHANGED <<a, extlist0, retlist, built, ret>>
  /\ UNCHANGED v2iVars

\* line 61: return extlist
i2v_return ==
  /\ pc = "i2v_61"
  /\ retlist' = extlist
  /\ ret' = "extlist"
  /\ pc' = "i2v_done"
  /\ UNCHANGED <<a, extlist, extlist0, built, oom>>
  /\ UNCHANGED v2iVars

i2v_POLICY_CONSTRAINTS ==
  \/ i2v_requireExplicitPolicy
  \/ i2v_inhibitPolicyMapping
  \/ i2v_return

\* -------------------------------------------------- v2i_POLICY_CONSTRAINTS
\* fault: names compared without regard to case (strcasecmp)
FoldCase(s) == IF s = "RequireExplicitPolicy" THEN "requireExplicitPolicy" ELSE s

strcasecmp(s, t) == IF FoldCase(s) = FoldCase(t) THEN 0 ELSE 1

\* strcmp on names: 0 exactly when the two are the same, character for character
strcmp(s, t) == IF s = t THEN 0 ELSE 1

\* the pairs i2v appended behind the list it was given
Appended == SubSeq(retlist, Len(extlist0) + 1, Len(retlist))

\* the configuration key that names the field a display label shows
ConfigKey(label) ==
  IF label = "Require Explicit Policy" THEN "requireExplicitPolicy"
  ELSE IF label = "Inhibit Policy Mapping" THEN "inhibitPolicyMapping"
  ELSE label

Renamed(list) ==
  [k \in 1..Len(list) |-> CONF_VALUE(ConfigKey(list[k].name), list[k].value)]

\* the method table's v2i slot called on pairs of a configuration file
Call_v2i ==
  /\ pc = "idle"
  /\ \E vals \in Inputs : values' = vals
  /\ feed' = "conf"
  /\ pc' = "v2i_68"
  /\ ret' = "pending"
  /\ UNCHANGED <<i, pcons, heap, frees, errq, oom>>
  /\ UNCHANGED i2vVars

\* the v2i slot called on the pairs i2v has just appended, as they are
Call_v2i_display ==
  /\ pc = "i2v_done"
  /\ ~built
  /\ values' = Appended
  /\ feed' = "display"
  /\ pc' = "v2i_68"
  /\ ret' = "pending"
  /\ UNCHANGED <<i, pcons, heap, frees, errq, oom>>
  /\ UNCHANGED i2vVars

\* the v2i slot called on the pairs i2v has just appended, each display
\* label replaced by the configuration key of its field
Call_v2i_renamed ==
  /\ pc = "i2v_done"
  /\ ~built
  /\ values' = Renamed(Appended)
  /\ feed' = "renamed"
  /\ pc' = "v2i_68"
  /\ ret' = "pending"
  /\ UNCHANGED <<i, pcons, heap, frees, errq, oom>>
  /\ UNCHANGED i2vVars

\* lines 67-70: allocate the structure, or return NULL
v2i_new ==
  /\ pc = "v2i_68"
  /\ \E mem \in BOOLEAN :
       IF mem
         THEN /\ pcons' = POLICY_CONSTRAINTS_new
              /\ heap' = "live"
              /\ pc' = "v2i_71"
              /\ UNCHANGED <<ret, oom>>
         ELSE /\ ret' = "NULL"
              /\ oom' = oom \cup {"POLICY_CONSTRAINTS_new"}
              /\ pc' = "v2i_done"
              /\ UNCHANGED <<pcons, heap>>
  /\ i' = 0
  /\ UNCHANGED <<values, frees, errq, feed>>
  /\ UNCHANGED i2vVars

\* fault: the result of X509V3_get_value_int is not tested (no goto err)
v2i_value_unchecked(val, p, mem) ==
  IF strcmp(val.name, "requireExplicitPolicy") = 0 THEN
    LET r == X509V3_get_value_int(val, p.requireExplicitPolicy, mem) IN
    [ok |-> TRUE, err |-> r.err, oom |-> r.oom,
     pcons |-> [p EXCEPT !.requireExplicitPolicy = r.aint]]
  ELSE IF strcmp(val.name, "inhibitPolicyMapping") = 0 THEN
    LET r == X509V3_get_value_int(val, p.inhibitPolicyMapping, mem) IN
    [ok |-> TRUE, err |-> r.err, oom |-> r.oom,
     pcons |-> [p EXCEPT !.inhibitPolicyMapping = r.aint]]
  ELSE
    [ok |-> FALSE, err |-> <<Error(X509V3_R_INVALID_NAME, val)>>, oom |-> {},
     pcons |-> p]

\* fault: line 78 stores into &pcons->requireExplicitPolicy
v2i_value_sameField(val, p, mem) ==
  IF strcmp(val.name, "requireExplicitPolicy") = 0 THEN
    LET r == X509V3_get_value_int(val, p.requireExplicitPolicy, mem) IN
    [ok |-> r.ok, err |-> r.err, oom |-> r.oom,
     pcons |-> [p EXCEPT !.requireExplicitPolicy = r.aint]]
  ELSE IF strcmp(val.name, "inhibitPolicyMapping") = 0 THEN
    LET r == X509V3_get_value_int(val, p.requireExplicitPolicy, mem) IN
    [ok |-> r.ok, err |-> r.err, oom |-> r.oom,
     pcons |-> [p EXCEPT !.requireExplicitPolicy = r.aint]]
  ELSE
    [ok |-> FALSE, err |-> <<Error(X509V3_R_INVALID_NAME, val)>>, oom |-> {},
     pcons |-> p]

\* lines 72-85: what one pair does to the structure p
v2i_value(val, p, mem) ==
  IF strcmp(val.name, "requireExplicitPolicy") = 0 THEN
    LET r == X509V3_get_value_int(val, p.requireExplicitPolicy, mem) IN
    [ok |-> r.ok, err |-> r.err, oom |-> r.oom,
     pcons |-> [p EXCEPT !.requireExplicitPolicy = r.aint]]
  ELSE IF strcmp(val.name, "inhibitPolicyMapping") = 0 THEN
    LET r == X509V3_get_value_int(val, p.inhibitPolicyMapping, mem) IN
    [ok |-> r.ok, err |-> r.err, oom |-> r.oom,
     pcons |-> [p EXCEPT !.inhibitPolicyMapping = r.aint]]
  ELSE
    [ok |-> FALSE, err |-> <<Error(X509V3_R_INVALID_NAME, val)>>, oom |-> {},
     pcons |-> p]

\* fault: a failed pair is reported but the loop goes on to the next pair
v2i_for_continues ==
  /\ pc = "v2i_71"
  /\ i < Len(values)
  /\ \E mem \in BOOLEAN :
       LET r == v2i_value(values[i + 1], pcons, mem) IN
       /\ pcons' = r.pcons
       /\ errq' = errq \o r.err
       /\ oom' = oom \cup r.oom
       /\ i' = i + 1
       /\ pc' = "v2i_71"
  /\ UNCHANGED <<values, heap, frees, ret, feed>>
  /\ UNCHANGED i2vVars

\* lines 71-86: one turn of the loop; a failed pair leaves through goto err
v2i_for ==
  /\ pc = "v2i_71"
  /\ i < Len(values)
  /\ \E mem \in BOOLEAN :
       LET r == v2i_value(values[i + 1], pcons, mem) IN
       /\ pcons' = r.pcons
       /\ errq' = errq \o r.err
       /\ oom' = oom \cup r.oom
       /\ IF r.ok THEN /\ i' = i + 1
                       /\ pc' = "v2i_71"
                  ELSE /\ i' = i
                       /\ pc' = "v2i_err"
  /\ UNCHANGED <<values, heap, frees, ret, feed>>
  /\ UNCHANGED i2vVars

\* fault: the check of line 87 is missing
EmptyExtension_unchecked(p) == FALSE

\* fault: line 87 takes a field whose value is 0 for an absent one
EmptyExtension_zeroIsAbsent(p) ==
  /\ p.inhibitPolicyMapping \in {NULL, <<0>>}
  /\ p.requireExplicitPolicy \in {NULL, <<0>>}

\* line 87: neither field was set
EmptyExtension(p) ==
  p.inhibitPolicyMapping = NULL /\ p.requireExplicitPolicy = NULL

\* lines 87-92, reached when the loop has run off the end of the list
v2i_check ==
  /\ pc = "v2i_71"
  /\ i >= Len(values)
  /\ IF EmptyExtension(pcons)
       THEN /\ errq' = Append(errq, Error(X509V3_R_ILLEGAL_EMPTY_EXTENSION, NoPair))
            /\ pc' = "v2i_err"
            /\ ret' = ret
       ELSE /\ ret' = "pcons"
            /\ pc' = "v2i_done"
            /\ errq' = errq
  /\ UNCHANGED <<values, i, pcons, heap, frees, oom, feed>>
  /\ UNCHANGED i2vVars

\* fault: err: returns NULL without POLICY_CONSTRAINTS_free
v2i_err_leaks ==
  /\ pc = "v2i_err"
  /\ ret' = "NULL"
  /\ pc' = "v2i_done"
  /\ UNCHANGED <<values, i, pcons, heap, frees, errq, oom, feed>>
  /\ UNCHANGED i2vVars

\* lines 93-95: err: POLICY_CONSTRAINTS_free(pcons); return NULL
v2i_err ==
  /\ pc = "v2i_err"
  /\ heap' = "freed"
  /\ frees' = frees + 1
  /\ ret' = "NULL"
  /\ pc' = "v2i_done"
  /\ UNCHANGED <<values, i, pcons, errq, oom, feed>>
  /\ UNCHANGED i2vVars

v2i_POLICY_CONSTRAINTS ==
  \/ v2i_new
  \/ v2i_for
  \/ v2i_check
  \/ v2i_err

Next ==
  \/ Call_i2v
  \/ Call_i2v_built
  \/ i2v_POLICY_CONSTRAINTS
  \/ Call_v2i
  \/ Call_v2i_display
  \/ Call_v2i_renamed
  \/ v2i_POLICY_CONSTRAINTS

Spec == Init /\ [][Next]_vars
\* ------------------------------------------------------------ properties
Recognized(n) == n \in {"requireExplicitPolicy", "inhibitPolicyMapping"}

\* the pair makes v2i abort: unknown name, or a value that is no decimal
Offending(val) == ~Recognized(val.name) \/ ~IsDecimal(val.value)

ErrorOf(val) ==
  IF ~Recognized(val.name) THEN Error(X509V3_R_INVALID_NAME, val)
  ELSE Error(InvalidIntegerError, val)

EmptyError == Error(X509V3_R_ILLEGAL_EMPTY_EXTENSION, NoPair)

NoRecognizedName == \A k \in 1..Len(values) : ~Recognized(values[k].name)

\* v2i has returned and every allocation succeeded
V2iReturned == pc = "v2i_done" /\ oom = {}

REP(text) == CONF_VALUE("requireExplicitPolicy", text)
IPM(text) == CONF_VALUE("inhibitPolicyMapping", text)

\* the value of the last pair of vals named n, NULL when there is none
LastOf(vals, n) ==
  LET at == {k \in 1..Len(vals) : vals[k].name = n} IN
  IF at = {} THEN NULL
  ELSE LET last == CHOOSE k \in at : \A j \in at : j <= k IN
       <<DecimalValue(vals[last].value)>>

\* what i2v is to append for the structure s
Display(s) ==
  (IF s.requireExplicitPolicy = NULL THEN <<>>
   ELSE <<CONF_VALUE("Require Explicit Policy",
                     i2s_ASN1_INTEGER(s.requireExplicitPolicy[1]))>>)
  \o
  (IF s.inhibitPolicyMapping = NULL THEN <<>>
   ELSE <<CONF_VALUE("Inhibit Policy Mapping",
                     i2s_ASN1_INTEGER(s.inhibitPolicyMapping[1]))>>)

Valid(s) == s.requireExplicitPolicy # NULL \/ s.inhibitPolicyMapping # NULL

\* C1 as stated: when every allocation succeeds, v2i fails with the
\* empty-extension error for the empty input and for every input in which
\* neither recognized name occurs.
C1_EmptyErrorWithoutRecognizedName ==
  (V2iReturned /\ NoRecognizedName) => (ret = "NULL" /\ errq = <<EmptyError>>)

\* C1 amended: when every allocation succeeds, v2i fails for every input in
\* which neither recognized name occurs; the error is the empty-extension
\* error for the empty input, and the unknown-name error carrying the first
\* pair for a non-empty one.
C1_FailsWithoutRecognizedName ==
  (V2iReturned /\ NoRecognizedName) =>
    /\ ret = "NULL"
    /\ errq = IF values = <<>> THEN <<EmptyError>>
              ELSE <<Error(X509V3_R_INVALID_NAME, values[1])>>

C1_Witness ==
  /\ V2iReturned
  /\ feed = "conf"
  /\ values = <<>>
  /\ ret = "NULL"
  /\ errq = <<EmptyError>>

\* C2 as stated: for a valid structure, the pairs i2v appends, handed to v2i
\* as they are, make v2i succeed with a structure equal to the original.
C2_TextRoundTrip ==
  (V2iReturned /\ feed = "display" /\ Valid(a)) => (ret = "pcons" /\ pcons = a)

\* C2 amended: for a valid structure, the pairs i2v appends, each display
\* label replaced by the configuration key of its field, make v2i succeed
\* with a structure equal to the original.
C2_TextRoundTripRenamed ==
  (V2iReturned /\ feed = "renamed" /\ Valid(a)) =>
    (ret = "pcons" /\ heap = "live" /\ pcons = a)

C2_Witness ==
  /\ V2iReturned
  /\ feed = "renamed"
  /\ a = POLICY_CONSTRAINTS(<<12>>, <<0>>)
  /\ Len(extlist0) > 0
  /\ ret = "pcons"
  /\ pcons = a

\* C3: a structure v2i returns has at least one field present, and presence
\* is what counts: an input of recognized names whose values are all "0"
\* succeeds with exactly the named fields present, holding 0.
C3_NeverBothAbsent ==
  /\ (pc = "v2i_done" /\ ret = "pcons") => (heap = "live" /\ Valid(pcons))
  /\ (/\ V2iReturned
      /\ values # <<>>
      /\ \A k \in 1..Len(values) :
           Recognized(values[k].name) /\ values[k].value = <<"0">>)
     => /\ ret = "pcons"
        /\ pcons.requireExplicitPolicy =
             IF \E k \in 1..Len(values) : values[k].name = "requireExplicitPolicy"
               THEN <<0>> ELSE NULL
        /\ pcons.inhibitPolicyMapping =
             IF \E k \in 1..Len(values) : values[k].name = "inhibitPolicyMapping"
               THEN <<0>> ELSE NULL

C3_Witness ==
  /\ V2iReturned
  /\ values = <<REP(<<"0">>)>>
  /\ ret = "pcons"
  /\ pcons = POLICY_CONSTRAINTS(<<0>>, NULL)

\* C4: the turn of the loop that meets a pair whose name is not exactly one
\* of the two keys leaves for err, putting the unknown-name error with that
\* pair and storing nothing; the input [("foo","1")] ends in NULL with that
\* error.
C4_UnknownNameAborts ==
  /\ [][(/\ pc = "v2i_71"
         /\ i < Len(values)
         /\ ~Recognized(values[i + 1].name))
        => /\ pc' = "v2i_err"
           /\ errq' = Append(errq, Error(X509V3_R_INVALID_NAME, values[i + 1]))
           /\ pcons' = pcons]_vars
  /\ [](pc = "v2i_done" /\ errq # <<>> => ret = "NULL")
  /\ []((V2iReturned /\ values = <<CONF_VALUE("foo", <<"1">>)>>)
        => /\ ret = "NULL"
           /\ errq = <<Error(X509V3_R_INVALID_NAME, CONF_VALUE("foo", <<"1">>))>>)

C4_Witness ==
  /\ V2iReturned
  /\ Len(values) = 2
  /\ values[1] = REP(<<"1">>)
  /\ values[2] = CONF_VALUE("RequireExplicitPolicy", <<"2">>)
  /\ ret = "NULL"
  /\ errq = <<Error(X509V3_R_INVALID_NAME, values[2])>>

\* C5: the turn of the loop that meets a recognized name whose value is not
\* a non-negative decimal integer leaves for err with the invalid-integer
\* error; [("requireExplicitPolicy","-1")] and
\* [("requireExplicitPolicy","abc")] end in NULL with that error.
C5_InvalidIntegerAborts ==
  /\ [][(/\ pc = "v2i_71"
         /\ i < Len(values)
         /\ Recognized(values[i + 1].name)
         /\ ~IsDecimal(values[i + 1].value))
        => /\ pc' = "v2i_err"
           /\ errq' = Append(errq, Error(InvalidIntegerError, values[i + 1]))
           /\ pcons' = pcons]_vars
  /\ [](\A text \in {<<"-", "1">>, <<"a", "b", "c">>} :
          (pc = "v2i_done" /\ heap # "unallocated" /\ values = <<REP(text)>>)
          => /\ ret = "NULL"
             /\ errq = <<Error(InvalidIntegerError, REP(text))>>)

C5_Witness ==
  /\ V2iReturned
  /\ values = <<REP(<<"-", "1">>)>>
  /\ ret = "NULL"
  /\ errq = <<Error(InvalidIntegerError, REP(<<"-", "1">>))>>

\* C6: when every allocation succeeds, a non-empty input of recognized names
\* with decimal values succeeds, and each field holds the value of the last
\* pair carrying its name, absent when no pair carries it.
C6_LastWriteWins ==
  (/\ V2iReturned
   /\ values # <<>>
   /\ \A k \in 1..Len(values) : ~Offending(values[k]))
  => /\ ret = "pcons"
     /\ heap = "live"
     /\ errq = <<>>
     /\ pcons.requireExplicitPolicy = LastOf(values, "requireExplicitPolicy")
     /\ pcons.inhibitPolicyMapping = LastOf(values, "inhibitPolicyMapping")

C6_Witness ==
  /\ V2iReturned
  /\ values = <<REP(<<"1">>), REP(<<"2">>)>>
  /\ ret = "pcons"
  /\ pcons = POLICY_CONSTRAINTS(<<2>>, NULL)

\* C7: when every allocation succeeds, v2i fails with exactly the error of
\* the first offending pair, having stopped at it, whatever follows; the
\* empty-extension error is put only with all pairs processed and no other
\* error in the queue.
C7_FirstOffendingPair ==
  /\ V2iReturned =>
       LET bad == {k \in 1..Len(values) : Offending(values[k])} IN
       IF bad # {}
         THEN LET first == CHOOSE k \in bad : \A j \in bad : k <= j IN
              /\ ret = "NULL"
              /\ i = first - 1
              /\ errq = <<ErrorOf(values[first])>>
         ELSE /\ i = Len(values)
              /\ errq \in {<<>>, <<EmptyError>>}
  /\ (\E k \in 1..Len(errq) : errq[k] = EmptyError) =>
       (i = Len(values) /\ errq = <<EmptyError>>)
  /\ pc \in {"v2i_71", "v2i_err", "v2i_done"} => i <= Len(values)

C7_Witness ==
  /\ V2iReturned
  /\ Len(values) = 2
  /\ values[1] = IPM(<<"a", "b", "c">>)
  /\ values[2] = CONF_VALUE("foo", <<"1">>)
  /\ ret = "NULL"
  /\ i = 0
  /\ errq = <<Error(InvalidIntegerError, values[1])>>

C9_OnlyAppends ==
  /\ []((pc = "i2v_done" /\ "X509V3_add_value_int" \notin oom)
        => (ret = "extlist" /\ retlist = extlist0 \o Display(a)))
  /\ []((pc = "i2v_done" /\ "X509V3_add_value_int" \notin oom
           /\ a = POLICY_CONSTRAINTS(<<12>>, <<0>>))
        => Appended = <<CONF_VALUE("Require Explicit Policy", <<"1", "2">>),
                        CONF_VALUE("Inhibit Policy Mapping", <<"0">>)>>)
  /\ [](pc \in {"i2v_57", "i2v_59", "i2v_61", "i2v_done"}
        => /\ Len(extlist) >= Len(extlist0)
           /\ SubSeq(extlist, 1, Len(extlist0)) = extlist0)
  /\ [][(pc \in {"i2v_57", "i2v_59", "i2v_61"})
        => /\ a' = a
           /\ extlist0' = extlist0
           /\ pcons' = pcons]_vars

C9_Witness ==
  /\ pc = "i2v_done"
  /\ built
  /\ oom = {}
  /\ values = <<IPM(<<"1">>), REP(<<"2">>)>>
  /\ Len(extlist0) = 2
  /\ retlist = extlist0 \o <<CONF_VALUE("Require Explicit Policy", <<"2">>),
                            CONF_VALUE("Inhibit Policy Mapping", <<"1">>)>>

\* C10: an allocation failure makes the operation fail with nothing kept:
\* v2i returns NULL with no live structure, and i2v, when appending an
\* entry failed, reports failure instead of returning a list.
C10_AllocationFailurePropagates ==
  /\ (/\ pc = "v2i_done"
      /\ oom \cap {"POLICY_CONSTRAINTS_new", "X509V3_get_value_int"} # {})
     => (ret = "NULL" /\ heap # "live")
  /\ (pc = "i2v_done" /\ "X509V3_add_value_int" \in oom) => ret = "NULL"
====
